---- MODULE Spec2Model ----
(***************************************************************************)
(* unciv: the ZFS directory decoder (ZfsHeaders::from_stream), the RIM     *)
(* image decoder (RimHeader::from_stream, read_contiguous,                 *)
(* read_rgba_bytes) and the raw entry extraction (ZfsEntry::get_data) of   *)
(* src/src/lib.rs, as state machines over a seekable byte stream.          *)
(*                                                                         *)
(* The stream behind `reader` never changes: it is given by the parameters *)
(* it was built from (arch, img), as its length StreamLen and its byte     *)
(* ByteAt(k) at every 0-based offset k.  The cursor `pos` is the offset of *)
(* the next byte to read.                                                  *)
(***************************************************************************)
EXTENDS Integers, Sequences, FiniteSets, TLC

VARIABLES
    pos,                \* the cursor of `reader`
    pc,                 \* position in the running function
    res,                \* "none" | "Ok" | "Err" | "Panic": how the function ended
    why,                \* the error or panic message
    log,                \* trace of the operations performed on `reader`
    arch,               \* the parameters of the archive behind `reader`
    img,                \* the parameters of the image behind `reader`
    prog,               \* the function called on the stream
    overflow_checks,    \* the build panics on integer overflow (debug) or wraps (release)
    entry,              \* the ZfsEntry (self) of a per-entry call
    calls,              \* how many per-entry calls have been made on `reader`
    prev,               \* the entry, outcome and reader trace of the first of them
    rim_image,          \* the RimHeader returned by RimHeader::from_stream
    data, line_num,     \* the locals of read_contiguous and read_rgba_bytes
    out_file,           \* the bytes written to the extracted file
    version, max_filename_len, files_per_table, num_files,
    filetable_offset, next_table_offset, i, raw_name, files,
    out                 \* the value returned on Ok

envVars == <<arch, img, prog, overflow_checks, entry, calls, prev>>
rimVars == <<rim_image, data, line_num, out_file>>
zfsVars == <<version, max_filename_len, files_per_table, num_files,
             filetable_offset, next_table_offset, i, raw_name, files>>
vars    == <<envVars, pos, pc, res, why, log, zfsVars, rimVars, out>>

(***************************************************************************)
(* Bounds of the model.                                                    *)
(***************************************************************************)
MaxFiles    == 5        \* largest total-entry-count in an archive header
MaxPerTable == 2        \* largest entries-per-table in an archive header
MaxNameLen  == 2        \* largest max-filename-length in an archive header
MaxWidth    == 2        \* largest width of a small image
MaxHeight   == 2        \* largest height of a small image
MaxPad      == 2        \* largest row padding (pitch - width*2) of a small image
MaxData     == 4        \* length of the stream get_data reads from
MaxCycle    == 2        \* largest number of table pages that form a cycle
MaxCalls    == 3        \* largest number of per-entry calls on one stream

(***************************************************************************)
(* Program constants.                                                      *)
(***************************************************************************)
ZFS_SIGNATURE == 861095514      \* 0x3353465a, 'ZFS3'
RIM_SIGNATURE == 1179470162     \* 0x464d4952, 'RIMF'

None == "None"
Min(a, b) == IF a < b THEN a ELSE b
Max(a, b) == IF a < b THEN b ELSE a

(***************************************************************************)
(* Little-endian integers (u16::from_le_bytes, u32::from_le_bytes and      *)
(* their inverses).  Every u32 of the streams below is less than 2^31.     *)
(***************************************************************************)
LE16(x) == <<x % 256, (x \div 256) % 256>>
LE32(x) == <<x % 256, (x \div 256) % 256, (x \div 65536) % 256, (x \div 16777216) % 256>>

FromLE16(b) == b[1] + 256 * b[2]
FromLE32(b) == b[1] + 256 * b[2] + 65536 * b[3] + 16777216 * b[4]

(***************************************************************************)
(* Name decoding: String::from_utf8_lossy then trim_matches('\0').  A name *)
(* is modelled as its sequence of code points.  Utf8Lossy is exact for     *)
(* ASCII bytes and for bytes 0xF8..0xFF, which occur in no well-formed     *)
(* UTF-8 sequence and are each replaced by U+FFFD; the archives below use  *)
(* only such bytes.                                                        *)
(***************************************************************************)
REPLACEMENT_CHARACTER == 65533
Utf8Lossy(raw) == [k \in 1..Len(raw) |-> IF raw[k] < 128 THEN raw[k] ELSE REPLACEMENT_CHARACTER]

TrimNul(str) ==
    LET keep == {k \in 1..Len(str) : str[k] # 0}
    IN  IF keep = {} THEN <<>>
        ELSE LET lo == CHOOSE k \in keep : \A m \in keep : k <= m
                 hi == CHOOSE k \in keep : \A m \in keep : m <= k
             IN  SubSeq(str, lo, hi)

DecodeName(raw) == TrimNul(Utf8Lossy(raw))

(***************************************************************************)
(* The ZfsEntry pushed for one entry record: the name field and the five   *)
(* u32 fields that follow it (data offset, reserved, data size, timestamp, *)
(* flags).  The timestamp is UNIX_EPOCH + timestamp seconds.               *)
(***************************************************************************)
U32At(rec, n) == FromLE32([k \in 1..4 |-> rec[4 * n + k]])    \* the n-th u32 of rec, from 0
MakeEntry(raw, rec) ==
    [ name      |-> DecodeName(raw),
      offset    |-> U32At(rec, 0),
      size      |-> U32At(rec, 2),
      timestamp |-> [secs_since_epoch |-> U32At(rec, 3)],
      flags     |-> U32At(rec, 4) ]

(***************************************************************************)
(* Archives.  An archive is built from a record of parameters:             *)
(*   sigOK    the first four bytes are the magic                           *)
(*   L, E, N  max-filename-length, entries-per-table, total-entry-count    *)
(*   zeroAt   the slot whose name field is all zero (N: none before N)     *)
(*   tailFull the slots of the last page past N hold entries, not zeroes   *)
(*   order    the pages lie in the file in chain order or in reverse       *)
(*   lastPtr  the next-table pointer of the last page                      *)
(*   cycle    0, or the number of pages the file holds when they are fewer *)
(*            than total-entry-count needs and the last points at the first*)
(*   cut      where the file is truncated                                  *)
(* following the layout from_stream reads: a 28-byte header, then pages of *)
(* a u32 next-table pointer and entries-per-table entry records of         *)
(* max-filename-length + 20 bytes, separated by filler bytes.              *)
(***************************************************************************)
HeaderLen == 28         \* seven u32 fields
RecordLen == 20         \* five u32 fields after the name
Gap       == 3          \* filler bytes (0x6E) before every page

NumPages(a)     == IF a.cycle > 0 THEN a.cycle
                   ELSE IF a.E = 0 THEN 1 ELSE Max(1, (a.N + a.E - 1) \div a.E)
SlotsPerPage(a) == IF a.E = 0 THEN a.N ELSE a.E
PageLen(a)      == 4 + SlotsPerPage(a) * (a.L + RecordLen)
PhysIndex(a, p) == IF a.order = "fwd" THEN p ELSE NumPages(a) - 1 - p
PageOff(a, p)   == HeaderLen + Gap + PhysIndex(a, p) * (PageLen(a) + Gap)
FullLen(a)      == HeaderLen + NumPages(a) * (PageLen(a) + Gap)

SlotIsZero(a, j) == j = a.zeroAt \/ (j >= a.N /\ ~a.tailFull)

\* The raw name field of slot j: a letter, then (odd j) a 0xFF byte, NUL padded.
SlotName(a, j) ==
    [k \in 1..a.L |-> IF k = 1 THEN 97 + j
                      ELSE IF k = 2 /\ j % 2 = 1 THEN 255 ELSE 0]
SlotOffset(j) == 1000 + 300 * j
SlotSize(j)   == j + 1
SlotTime(j)   == 86400 * j + 5
SlotFlags(j)  == j * 65537
SlotFields(j) ==
    LE32(SlotOffset(j)) \o LE32(195948557) \o LE32(SlotSize(j)) \o LE32(SlotTime(j))
    \o LE32(SlotFlags(j))
\* A zero slot has a zero first name byte; the rest of it is arbitrary (0x55).
Slot(a, j) ==
    IF SlotIsZero(a, j) THEN [k \in 1..(a.L + RecordLen) |-> IF k = 1 THEN 0 ELSE 85]
    ELSE SlotName(a, j) \o SlotFields(j)

NextPtr(a, p) ==
    IF p + 1 < NumPages(a) THEN PageOff(a, p + 1)
    ELSE CASE a.lastPtr = "zero"  -> 0
           [] a.lastPtr = "eof"   -> FullLen(a)
           [] a.lastPtr = "first" -> PageOff(a, 0)

\* byte b of page p: its next-table pointer, then its slots
PageByte(a, p, b) ==
    IF b < 4 THEN LE32(NextPtr(a, p))[b + 1]
    ELSE Slot(a, p * SlotsPerPage(a) + (b - 4) \div (a.L + RecordLen))
             [((b - 4) % (a.L + RecordLen)) + 1]

ArchiveHeader(a) ==
    LE32(IF a.sigOK THEN ZFS_SIGNATURE ELSE RIM_SIGNATURE)
    \o LE32(1) \o LE32(a.L) \o LE32(a.E) \o LE32(a.N) \o LE32(0) \o LE32(PageOff(a, 0))

ArchiveByteAt(a, k) ==
    IF k < HeaderLen THEN ArchiveHeader(a)[k + 1]
    ELSE LET q == (k - HeaderLen) \div (PageLen(a) + Gap)
             w == (k - HeaderLen) % (PageLen(a) + Gap)
         IN  IF w < Gap THEN 110 ELSE PageByte(a, PhysIndex(a, q), w - Gap)

ArchiveLen(a) ==
    Min(FullLen(a),
        CASE a.cut = "none" -> FullLen(a)
          [] a.cut = "sig"  -> 2
          [] a.cut = "hdr"  -> 14
          [] a.cut = "ptr"  -> PageOff(a, 0) + 2
          [] a.cut = "name" -> PageOff(a, 0) + 4 + a.L - 1
          [] a.cut = "rec"  -> PageOff(a, 0) + 4 + a.L + 7
          [] a.cut = "hop"  -> PageOff(a, NumPages(a) - 1) + 2)

Cuts == {"none", "sig", "hdr", "ptr", "name", "rec", "hop"}

Archives ==
    { a \in [ sigOK : BOOLEAN, L : 0..MaxNameLen, E : 0..MaxPerTable, N : 0..MaxFiles,
              zeroAt : 0..MaxFiles, tailFull : BOOLEAN, order : {"fwd", "rev"},
              lastPtr : {"zero", "eof", "first"}, cycle : 0..MaxCycle, cut : Cuts ] :
        /\ a.zeroAt <= a.N
        /\ a.cycle > 0 =>
              /\ a.sigOK /\ a.L >= 1 /\ a.E >= 1 /\ a.cycle * a.E < a.N
              /\ a.zeroAt = a.N /\ ~a.tailFull /\ a.lastPtr = "first" /\ a.cut = "none"
        /\ (~a.sigOK \/ a.L = 0) =>
              /\ a.zeroAt = a.N /\ a.order = "fwd" /\ a.lastPtr = "zero"
              /\ ~a.tailFull /\ a.cut = "none"
        /\ a.cut # "none" =>
              /\ a.zeroAt = a.N /\ a.order = "fwd" /\ a.lastPtr = "zero" /\ ~a.tailFull
              /\ a.E >= 1
              /\ a.cut = "hop" => a.N > a.E }

\* The archive is one the format allows: magic, at least one entry per table and
\* one byte per name, nothing missing, a table slot for each of its
\* total-entry-count entries, and a last next-table pointer that is 0 or the
\* offset of a table inside the file.
ValidArchive(a) ==
    a.sigOK /\ a.cut = "none" /\ a.E >= 1 /\ a.L >= 1 /\ a.lastPtr # "eof" /\ a.cycle = 0

\* The entries the archive stores before its first zero slot, at most N of them,
\* in the order of the chain of tables: entry k lies in slot ChainSlot(a, k).
ChainSlot(a, k) == IF a.cycle > 0 THEN k % (a.cycle * a.E) ELSE k
StoredName(a, j) ==
    <<97 + j>> \o (IF a.L >= 2 /\ j % 2 = 1 THEN <<65533>> ELSE <<>>)
StoredEntries(a) ==
    [k \in 1..Min(a.N, a.zeroAt) |->
        [ name      |-> StoredName(a, ChainSlot(a, k - 1)),
          offset    |-> SlotOffset(ChainSlot(a, k - 1)),
          size      |-> SlotSize(ChainSlot(a, k - 1)),
          timestamp |-> [secs_since_epoch |-> SlotTime(ChainSlot(a, k - 1))],
          flags     |-> SlotFlags(ChainSlot(a, k - 1)) ]]

(***************************************************************************)
(* Images.  An image stream is built from a record of parameters:          *)
(*   sigOK   the image starts with the magic                               *)
(*   off     the offset of the image in the stream (filler before it)      *)
(*   width, height, pad    pitch is width*2 + pad (pad -1: pitch too small)*)
(*   fmt     the format code                                               *)
(*   cut     where the stream is truncated                                 *)
(* following the layout RimHeader reads: a 16-byte header, then height     *)
(* rows of pitch bytes, the first width*2 of them little-endian pixels,    *)
(* the rest padding (0xEE).                                                *)
(***************************************************************************)
RimHeaderLen == 16      \* u32 signature, u32 version, four u16 fields

Pitch(m) == 2 * m.width + m.pad
PixelAt(m, r, c) == (31744 + 977 * (r * m.width + c) + 4099 * r) % 65536
RowByte(m, r, b) ==
    IF b < 2 * m.width THEN LE16(PixelAt(m, r, b \div 2))[(b % 2) + 1] ELSE 238
ImageFullLen(m) == m.off + RimHeaderLen + m.height * Pitch(m)
ImageHeader(m) ==
    LE32(IF m.sigOK THEN RIM_SIGNATURE ELSE ZFS_SIGNATURE) \o LE32(0)
    \o LE16(m.width) \o LE16(m.height) \o LE16(Pitch(m)) \o LE16(m.fmt)
ImageByteAt(m, k) ==
    IF k < m.off THEN 17
    ELSE IF k < m.off + RimHeaderLen THEN ImageHeader(m)[k - m.off + 1]
    ELSE RowByte(m, (k - m.off - RimHeaderLen) \div Pitch(m),
                    (k - m.off - RimHeaderLen) % Pitch(m))

\* the offset just past the last pixel of the last row
LastPixelEnd(m) == m.off + RimHeaderLen + (m.height - 1) * Pitch(m) + 2 * m.width
ImageLen(m) ==
    CASE m.cut = "none"    -> ImageFullLen(m)
      [] m.cut = "sig"     -> m.off + 2
      [] m.cut = "hdr"     -> m.off + 11
      [] m.cut = "pix"     -> LastPixelEnd(m) - 1
      [] m.cut = "lastpad" -> LastPixelEnd(m)

SmallImages ==
    { m \in [ sigOK : BOOLEAN, off : {0, 5}, width : 0..MaxWidth, height : 0..MaxHeight,
              pad : -1..MaxPad, fmt : {0, 1, 2, 65535},
              cut : {"none", "sig", "hdr", "pix", "lastpad"} ] :
        /\ m.pad = -1 => m.width >= 1 /\ m.cut = "none"
        /\ ~m.sigOK => m.cut = "none" /\ m.pad = 0
        /\ m.cut = "pix" => m.width >= 1 /\ m.height >= 1
        /\ m.cut = "lastpad" => m.pad >= 1 /\ m.height >= 1
        /\ m.fmt = 65535 => m.cut = "none" /\ m.off = 0 }

\* An image of 65536 pixels, the smallest whose pixel count does not fit in 16 bits.
LargeImages ==
    { [ sigOK |-> TRUE, off |-> 0, width |-> 256, height |-> 256, pad |-> 0,
        fmt |-> 0, cut |-> "none" ] }

Images == SmallImages \cup LargeImages

\* the pixels of the image, row by row, without the padding
StoredPixels(m) ==
    [k \in 1..(m.width * m.height) |-> PixelAt(m, (k - 1) \div m.width, (k - 1) % m.width)]

(***************************************************************************)
(* The stream, and the read primitives.  read_exact(n) at cursor p         *)
(* succeeds iff n bytes remain; a seek may go past the end, only the next  *)
(* read fails.  read_u16/read_u32::<LittleEndian> are read_exact and       *)
(* from_le_bytes.                                                          *)
(***************************************************************************)
StreamLen ==
    CASE prog = "ZfsHeaders::from_stream" -> ArchiveLen(arch)
      [] prog = "ZfsEntry::extract_file"  -> MaxData
      [] OTHER                            -> ImageLen(img)

ByteAt(k) ==
    CASE prog = "ZfsHeaders::from_stream" -> ArchiveByteAt(arch, k)
      [] prog = "ZfsEntry::extract_file"  -> 17 + k
      [] OTHER                            -> ImageByteAt(img, k)

Avail(p) == IF p >= StreamLen THEN 0 ELSE StreamLen - p
CanRead(p, n) == p + n <= StreamLen
BytesAt(p, n) == [k \in 1..n |-> ByteAt(p + k - 1)]
read_le16(p) == FromLE16(BytesAt(p, 2))
read_le32(p) == FromLE32(BytesAt(p, 4))

(***************************************************************************)
(* ZfsHeaders::from_stream, one action per stretch of straight-line code.  *)
(* A failed `?` ends the function with Err, a panic ends it with Panic;    *)
(* either way nothing is returned.                                         *)
(***************************************************************************)
Seek(off)            == <<"seek", off>>
Read(what, p, n)     == <<"read", what, p, n>>
Push(idx)            == <<"push", idx>>

\* if sig != ZFS_SIGNATURE / if rim_sig != RIM_SIGNATURE
\* (RimSignatureAny: the comparison left out)
RimSignatureAny(sig) == TRUE
ZfsSignatureOk(sig) == sig = ZFS_SIGNATURE
RimSignatureOk(sig) == sig = RIM_SIGNATURE

\* if raw_name[0] == 0 { break; }
\* (EndsTableIfAllZero: the whole name field compared instead of its first byte)
EndsTableIfAllZero(raw) == \A k \in 1..Len(raw) : raw[k] = 0
EndsTable(raw) == raw[1] = 0

Fail(kind, msg) == /\ pc' = "done" /\ res' = kind /\ why' = msg

ZfsReadSig ==
    /\ prog = "ZfsHeaders::from_stream"
    /\ pc = "start"
    /\ log' = Append(log, Read("sig", pos, 4))
    /\ UNCHANGED <<envVars, rimVars, zfsVars, out>>
    /\ IF ~CanRead(pos, 4)
       THEN Fail("Err", "UnexpectedEof") /\ pos' = StreamLen
       ELSE /\ pos' = pos + 4
            /\ IF ~ZfsSignatureOk(read_le32(pos))
               THEN Fail("Err", "Invalid ZFS signature")
               ELSE pc' = "header" /\ UNCHANGED <<res, why>>

\* version, max_filename_len, files_per_table, num_files, _unk2, filetable_offset
ZfsReadFields ==
    /\ pc = "header"
    /\ LET got == Min(6, Avail(pos) \div 4)
           fld(k) == read_le32(pos + 4 * k)
       IN  /\ log' = log \o [k \in 1..Min(6, got + 1) |-> Read("hdr", pos + 4 * (k - 1), 4)]
           /\ IF got < 6
              THEN /\ Fail("Err", "UnexpectedEof") /\ pos' = StreamLen
                   /\ UNCHANGED zfsVars
              ELSE /\ pos' = pos + 24
                   /\ version' = fld(0)
                   /\ max_filename_len' = fld(1)
                   /\ files_per_table' = fld(2)
                   /\ num_files' = fld(3)
                   /\ filetable_offset' = fld(5)
                   /\ pc' = "table" /\ UNCHANGED <<res, why>>
                   /\ UNCHANGED <<next_table_offset, i, raw_name, files>>
    /\ UNCHANGED <<envVars, rimVars, out>>

\* seek to the first table and read its next-table pointer
ZfsSeekTable ==
    /\ pc = "table"
    /\ log' = log \o <<Seek(filetable_offset), Read("ptr", filetable_offset, 4)>>
    /\ UNCHANGED <<envVars, rimVars, out, version, max_filename_len, files_per_table,
                   num_files, filetable_offset, raw_name, files>>
    /\ IF ~CanRead(filetable_offset, 4)
       THEN /\ Fail("Err", "UnexpectedEof") /\ pos' = Max(filetable_offset, StreamLen)
            /\ UNCHANGED <<next_table_offset, i>>
       ELSE /\ pos' = filetable_offset + 4
            /\ next_table_offset' = read_le32(filetable_offset)
            /\ i' = 0
            /\ pc' = "loop" /\ UNCHANGED <<res, why>>

\* for i in 0..num_files
\* (LoopDoneOnePast: the range taken as 0..=num_files)
LoopDoneOnePast(idx, n) == idx > n
LoopDone(idx, n) == idx >= n

\* the loop head and the name field: for i in 0..num_files { read_exact(raw_name); break? }
ZfsReadName ==
    /\ pc = "loop"
    /\ UNCHANGED <<envVars, rimVars, out, version, max_filename_len, files_per_table,
                   num_files, filetable_offset, next_table_offset, i, files>>
    /\ IF LoopDone(i, num_files)
       THEN pc' = "return" /\ UNCHANGED <<pos, log, raw_name, res, why>>
       ELSE /\ log' = Append(log, Read("name", pos, max_filename_len))
            /\ IF ~CanRead(pos, max_filename_len)
               THEN /\ Fail("Err", "UnexpectedEof") /\ pos' = Max(pos, StreamLen)
                    /\ UNCHANGED raw_name
               ELSE /\ pos' = pos + max_filename_len
                    /\ raw_name' = BytesAt(pos, max_filename_len)
                    /\ IF max_filename_len = 0
                       THEN Fail("Panic", "index out of bounds")
                       ELSE /\ UNCHANGED <<res, why>>
                            /\ pc' = IF EndsTable(BytesAt(pos, max_filename_len))
                                     THEN "return" ELSE "record"

\* if (i % files_per_table) == (files_per_table - 1)
\* (PageFullAtFirst: the hop taken at the first entry of a page instead of the last)
PageFullAtFirst(idx, per) == (idx % per) = 0
PageFull(idx, per) == (idx % per) = (per - 1)

\* the five u32 fields, files.push, and the hop to the next table when the page is full
ZfsReadRecord ==
    /\ pc = "record"
    /\ UNCHANGED <<envVars, rimVars, out, version, max_filename_len, files_per_table,
                   num_files, filetable_offset, raw_name>>
    /\ LET got == Min(5, Avail(pos) \div 4)
           reads == [k \in 1..Min(5, got + 1) |-> Read("rec", pos + 4 * (k - 1), 4)]
       IN  IF got < 5
           THEN /\ Fail("Err", "UnexpectedEof") /\ pos' = StreamLen
                /\ log' = log \o reads
                /\ UNCHANGED <<next_table_offset, i, files>>
           ELSE /\ files' = Append(files, MakeEntry(raw_name, BytesAt(pos, RecordLen)))
                /\ IF files_per_table = 0
                   THEN /\ Fail("Panic", "attempt to calculate the remainder with a divisor of zero")
                        /\ pos' = pos + RecordLen
                        /\ log' = log \o reads \o <<Push(i)>>
                        /\ UNCHANGED <<next_table_offset, i>>
                   ELSE IF PageFull(i, files_per_table)
                   THEN /\ log' = log \o reads
                                  \o <<Push(i), Seek(next_table_offset),
                                       Read("ptr", next_table_offset, 4)>>
                        /\ IF ~CanRead(next_table_offset, 4)
                           THEN /\ Fail("Err", "UnexpectedEof")
                                /\ pos' = Max(next_table_offset, StreamLen)
                                /\ UNCHANGED <<next_table_offset, i>>
                           ELSE /\ pos' = next_table_offset + 4
                                /\ next_table_offset' = read_le32(next_table_offset)
                                /\ i' = i + 1
                                /\ pc' = "loop" /\ UNCHANGED <<res, why>>
                   ELSE /\ log' = log \o reads \o <<Push(i)>>
                        /\ pos' = pos + RecordLen
                        /\ i' = i + 1
                        /\ pc' = "loop" /\ UNCHANGED <<res, why, next_table_offset>>

\* Ok(ZfsHeaders { version, max_filename_len, files })
ZfsReturn ==
    /\ pc = "return"
    /\ out' = [version |-> version, max_filename_len |-> max_filename_len, files |-> files]
    /\ pc' = "done" /\ res' = "Ok"
    /\ UNCHANGED <<envVars, rimVars, pos, log, why, zfsVars>>

(***************************************************************************)
(* Pixel conversion of RimHeader::read_rgba_bytes.  x >> n is x \div 2^n,  *)
(* x & (2^n - 1) is x % 2^n, x << n is x * 2^n in u16, `as u8` is % 256.   *)
(***************************************************************************)
Shr(x, n)  == x \div (2 ^ n)
Shl16(x, n) == (x * (2 ^ n)) % 65536
AsU8(x)    == x % 256

\* (Rgb555RedFrom11: the red shift of the 565 layout used for 555)
Rgb555RedFrom11(px555) ==
    LET red   == Shr(px555, 11) % 32
        green == Shr(px555, 5) % 32
        blue  == Shr(px555, 0) % 32
    IN  <<AsU8(Shl16(red, 3)), AsU8(Shl16(green, 3)), AsU8(Shl16(blue, 3)), 255>>

Rgb555(px555) ==
    LET red   == Shr(px555, 10) % 32
        green == Shr(px555, 5) % 32
        blue  == Shr(px555, 0) % 32
    IN  <<AsU8(Shl16(red, 3)), AsU8(Shl16(green, 3)), AsU8(Shl16(blue, 3)), 255>>

Rgb565(px565) ==
    LET red   == Shr(px565, 10) % 32
        green == Shr(px565, 5) % 64
        blue  == Shr(px565, 0) % 32
    IN  <<AsU8(Shl16(red, 3)), AsU8(Shl16(green, 2)), AsU8(Shl16(blue, 3)), 255>>

PixelToRgba(fmt, px) == IF fmt = "RGB555" THEN Rgb555(px) ELSE Rgb565(px)

(***************************************************************************)
(* RimHeader::from_stream.                                                 *)
(***************************************************************************)
\* (RimFormatOfLenient: every code but 0 taken as RGB565, as main.rs prints it)
RimFormatOfLenient(rim_fmt) == IF rim_fmt = 0 THEN "RGB555" ELSE "RGB565"
RimFormatOf(rim_fmt) ==
    CASE rim_fmt = 0 -> "RGB555"
      [] rim_fmt = 1 -> "RGB565"
      [] OTHER       -> None

\* reader.seek(io::SeekFrom::Start(off)): the cursor after the seek
\* (SeekFromCurrent: the offset taken relative to the cursor)
SeekFromCurrent(cur, off) == cur + off
SeekFromStart(cur, off) == off

\* ZfsEntry::extract_rim_image: seek to the entry's data
RimSeek ==
    /\ prog \in {"ZfsEntry::extract_rim_image", "RimHeader::read_contiguous"}
    /\ pc = "start"
    /\ pos' = SeekFromStart(pos, entry.offset)
    /\ log' = Append(log, Seek(entry.offset))
    /\ pc' = "rim_sig"
    /\ UNCHANGED <<envVars, zfsVars, rimVars, res, why, out>>

RimReadSig ==
    /\ pc = "rim_sig"
    /\ log' = Append(log, Read("sig", pos, 4))
    /\ UNCHANGED <<envVars, zfsVars, rimVars, out>>
    /\ IF ~CanRead(pos, 4)
       THEN Fail("Err", "UnexpectedEof") /\ pos' = Max(pos, StreamLen)
       ELSE /\ pos' = pos + 4
            /\ IF ~RimSignatureOk(read_le32(pos))
               THEN Fail("Err", "Invalid RIM signature")
               ELSE pc' = "rim_header" /\ UNCHANGED <<res, why>>

\* rim_ver, rim_width, rim_height, rim_pitch, rim_fmt and the match on rim_fmt
RimReadHeader ==
    /\ pc = "rim_header"
    /\ UNCHANGED <<envVars, zfsVars, data, line_num, out_file, out>>
    /\ LET sizes == <<4, 2, 2, 2, 2>>
           at(k) == pos + (IF k = 1 THEN 0 ELSE 2 + 2 * (k - 1))
           got   == IF Avail(pos) < 4 THEN 0
                    ELSE Min(5, 1 + (Avail(pos) - 4) \div 2)
       IN  /\ log' = log \o [k \in 1..Min(5, got + 1) |-> Read("hdr", at(k), sizes[k])]
           /\ IF got < 5
              THEN Fail("Err", "UnexpectedEof") /\ pos' = StreamLen /\ UNCHANGED rim_image
              ELSE /\ pos' = pos + 12
                   /\ IF RimFormatOf(read_le16(at(5))) = None
                      THEN Fail("Err", "Unknown RIM format") /\ UNCHANGED rim_image
                      ELSE /\ rim_image' = [ ver    |-> read_le32(at(1)),
                                             width  |-> read_le16(at(2)),
                                             height |-> read_le16(at(3)),
                                             pitch  |-> read_le16(at(4)),
                                             fmt    |-> RimFormatOf(read_le16(at(5))) ]
                           /\ pc' = "pixels" /\ UNCHANGED <<res, why>>

(***************************************************************************)
(* RimHeader::read_contiguous and RimHeader::read_rgba_bytes, one action   *)
(* per row.  self.width * self.height, self.width * 2 and                  *)
(* self.pitch - self.width * 2 are u16 arithmetic: out of range, they      *)
(* panic with overflow checks and wrap without.  A pixel read that meets   *)
(* the end of the stream is a `?` in read_contiguous and an unwrap() in    *)
(* read_rgba_bytes.                                                        *)
(***************************************************************************)
IsRgba == prog = "ZfsEntry::extract_rim_image"

\* let num_pixels = (self.width * self.height) as usize; Vec::with_capacity(..)
RimAllocate ==
    /\ pc = "pixels"
    /\ UNCHANGED <<envVars, zfsVars, rim_image, out_file, pos, log, out>>
    /\ IF rim_image.width * rim_image.height > 65535 /\ overflow_checks
       THEN Fail("Panic", "attempt to multiply with overflow") /\ UNCHANGED <<data, line_num>>
       ELSE /\ data' = <<>> /\ line_num' = 0
            /\ pc' = "rows" /\ UNCHANGED <<res, why>>

\* the values pushed for the row of h.width pixels that starts at p
RowData(h, rgba, p) ==
    IF rgba
    THEN [k \in 1..(4 * h.width) |->
            PixelToRgba(h.fmt, read_le16(p + 2 * ((k - 1) \div 4)))[((k - 1) % 4) + 1]]
    ELSE [k \in 1..h.width |-> read_le16(p + 2 * (k - 1))]

\* the cursor after the padding of a row that ended at q, or the panic of the arithmetic
AfterRow(h, checks, q) ==
    LET twice   == h.width * 2
        wrapped == twice % 65536
    IN  IF twice > 65535 /\ checks
        THEN [panic |-> "attempt to multiply with overflow", pos |-> q]
        ELSE IF wrapped = h.pitch
        THEN [panic |-> "", pos |-> q]
        ELSE IF h.pitch < wrapped /\ checks
        THEN [panic |-> "attempt to subtract with overflow", pos |-> q]
        ELSE [panic |-> "", pos |-> q + ((h.pitch - wrapped) % 65536)]

\* one turn of `for _line_num in 0..self.height`
RimReadRow ==
    /\ pc = "rows"
    /\ line_num < rim_image.height
    /\ log' = Append(log, Read("row", pos, 2 * rim_image.width))
    /\ UNCHANGED <<envVars, zfsVars, rim_image, out_file, out>>
    /\ IF ~CanRead(pos, 2 * rim_image.width)
       THEN /\ IF IsRgba
               THEN Fail("Panic", "called Result::unwrap() on an Err value")
               ELSE Fail("Err", "UnexpectedEof")
            /\ pos' = Max(pos, StreamLen)
            /\ UNCHANGED <<data, line_num>>
       ELSE LET after == AfterRow(rim_image, overflow_checks, pos + 2 * rim_image.width)
            IN  /\ pos' = after.pos
                /\ IF after.panic # ""
                   THEN Fail("Panic", after.panic) /\ UNCHANGED <<data, line_num>>
                   ELSE /\ data' = data \o RowData(rim_image, IsRgba, pos)
                        /\ line_num' = line_num + 1
                        /\ UNCHANGED <<pc, res, why>>

\* Ok(data)
RimReturn ==
    /\ pc = "rows"
    /\ line_num = rim_image.height
    /\ out' = data
    /\ pc' = "done" /\ res' = "Ok"
    /\ UNCHANGED <<envVars, zfsVars, rimVars, pos, log, why>>

(***************************************************************************)
(* ZfsEntry::get_data and ZfsEntry::extract_file.  Read::read fills at     *)
(* most the buffer and reports how many bytes it wrote: any count from 1   *)
(* to what is left, 0 only at the end of the stream or for an empty        *)
(* buffer.  get_data discards the count.                                   *)
(***************************************************************************)
ReadCounts(p, n) == IF Min(n, Avail(p)) = 0 THEN {0} ELSE 1..Min(n, Avail(p))

Filled(p, size, n) == [k \in 1..size |-> IF k <= n THEN ByteAt(p + k - 1) ELSE 0]

GetData ==
    /\ prog = "ZfsEntry::extract_file"
    /\ pc = "start"
    /\ LET at == SeekFromStart(pos, entry.offset)
       IN  \E n \in ReadCounts(at, entry.size) :
              /\ out' = Filled(at, entry.size, n)
              /\ pos' = at + n
              /\ log' = log \o <<Seek(entry.offset), Read("data", at, n)>>
    /\ pc' = "write"
    /\ UNCHANGED <<envVars, zfsVars, rimVars, res, why>>

\* File::create(&self.name) and write_all(&data), which the model lets succeed
ExtractFileWrite ==
    /\ pc = "write"
    /\ out_file' = out
    /\ pc' = "done" /\ res' = "Ok"
    /\ UNCHANGED <<envVars, zfsVars, rim_image, data, line_num, pos, log, why, out>>

\* Nothing has run: no local is set, nothing is returned.
Fresh ==
    /\ pc = "start" /\ res = "none" /\ why = "" /\ log = <<>>
    /\ version = 0 /\ max_filename_len = 0 /\ files_per_table = 0 /\ num_files = 0
    /\ filetable_offset = 0 /\ next_table_offset = 0 /\ i = 0
    /\ raw_name = <<>> /\ files = <<>>
    /\ rim_image = None /\ data = <<>> /\ line_num = 0 /\ out_file = None /\ out = None
    /\ calls = 1 /\ prev = None

\* main: ZfsHeaders::from_stream on a freshly opened archive.  No arithmetic of
\* from_stream can overflow before it divides, so one build stands for both.
InitZfs ==
    /\ prog = "ZfsHeaders::from_stream"
    /\ arch \in Archives
    /\ img = None /\ entry = None /\ overflow_checks = TRUE
    /\ pos = 0
    /\ Fresh

\* A RIM decode of an image that lies at entry.offset of a stream, called with
\* the cursor anywhere.
InitRim ==
    /\ prog \in {"ZfsEntry::extract_rim_image", "RimHeader::read_contiguous"}
    /\ img \in Images
    /\ entry = [name |-> <<97, 46, 114, 105, 109>>, offset |-> img.off, size |-> 0]
    /\ overflow_checks \in BOOLEAN
    /\ arch = None
    /\ pos \in {0, 3}
    /\ Fresh

\* extract_file of an entry of any offset and size on a stream of MaxData bytes
\* (17, 18, ...).
InitData ==
    /\ prog = "ZfsEntry::extract_file"
    /\ entry \in [name : {<<97>>}, offset : 0..(MaxData + 1), size : 0..(MaxData + 1)]
    /\ overflow_checks = TRUE
    /\ arch = None /\ img = None
    /\ pos \in {0, 3}
    /\ Fresh

Init == InitZfs \/ InitRim \/ InitData

Next ==
    \/ ZfsReadSig
    \/ ZfsReadFields
    \/ ZfsSeekTable
    \/ ZfsReadName
    \/ ZfsReadRecord
    \/ ZfsReturn
    \/ RimSeek
    \/ RimReadSig
    \/ RimReadHeader
    \/ RimAllocate
    \/ RimReadRow
    \/ RimReturn
    \/ GetData
    \/ ExtractFileWrite

Spec == Init /\ [][Next]_vars

(***************************************************************************)
(* The pixel conversion alone, on every 16-bit pixel in both formats.      *)
(***************************************************************************)
InitPixel ==
    /\ prog = "pixel"
    /\ img \in [fmt : {"RGB555", "RGB565"}, px : 0..65535]
    /\ arch = None /\ entry = None /\ overflow_checks = TRUE
    /\ pos = 0
    /\ Fresh

PixelConvert ==
    /\ prog = "pixel"
    /\ pc = "start"
    /\ out' = PixelToRgba(img.fmt, img.px)
    /\ pc' = "done" /\ res' = "Ok"
    /\ UNCHANGED <<envVars, zfsVars, rimVars, pos, log, why>>

NextPixel == PixelConvert

SpecPixel == InitPixel /\ [][NextPixel]_vars

(***************************************************************************)
(* Properties.                                                             *)
(***************************************************************************)
InFromStream == prog = "ZfsHeaders::from_stream"
InRim == prog \in {"ZfsEntry::extract_rim_image", "RimHeader::read_contiguous"}

IsSeek(e)    == e[1] = "seek"
IsPush(e)    == e[1] = "push"
IsRead(e, what) == e[1] = "read" /\ e[2] = what

\* C1: for every valid archive from_stream returns Ok with exactly the stored
\* entries, in order, before the first slot whose name starts with a zero byte,
\* or the first total-entry-count entries when no such slot comes first (also
\* when the last page is completely full); and whenever it returns Ok, for any
\* archive, the listing is that prefix.
C1_ListingIsStoredPrefix ==
    InFromStream =>
        /\ res = "Ok" =>
              /\ out.files = StoredEntries(arch)
              /\ out.version = 1
              /\ out.max_filename_len = arch.L
        /\ (pc = "done" /\ ValidArchive(arch)) => res = "Ok"

\* a valid archive of two full pages of two entries has been listed
C1_FullLastPageListed ==
    /\ InFromStream /\ pc = "done" /\ res = "Ok" /\ ValidArchive(arch)
    /\ arch.E = 2 /\ arch.N = 4 /\ arch.zeroAt = 4 /\ arch.tailFull
    /\ Len(out.files) = 4

\* the pointer read by the last next-table pointer read before event k
LastPointerBefore(k) ==
    LET m == CHOOSE m \in 1..(k - 1) :
                 /\ IsRead(log[m], "ptr")
                 /\ \A n \in (m + 1)..(k - 1) : ~IsRead(log[n], "ptr")
    IN  read_le32(log[m][3])

Seeks == SelectSeq(log, IsSeek)
HopsAfter == {log[k][2] : k \in {n \in 1..(Len(log) - 1) : IsPush(log[n]) /\ IsSeek(log[n + 1])}}

\* C2: with entries-per-table E >= 1, from_stream seeks to the most recently read
\* next-table pointer and reads a fresh 4-byte pointer there right after each
\* appended entry whose index i has i mod E = E-1, and at no other point of the
\* loop; with E = 2 and 5 entries it visits three distinct pages and hops after
\* the 2nd and 4th entries only.
C2_HopsExactlyOnFullPage ==
    (InFromStream /\ arch.E >= 1) =>
        /\ \A k \in 1..Len(log) :
              /\ IsPush(log[k]) =>
                    ((log[k][2] % arch.E = arch.E - 1) <=> (k < Len(log) /\ IsSeek(log[k + 1])))
              /\ IsSeek(log[k]) =>
                    /\ k < Len(log) /\ log[k + 1] = Read("ptr", log[k][2], 4)
                    /\ \/ IsRead(log[k - 1], "hdr") /\ log[k][2] = PageOff(arch, 0)
                       \/ IsPush(log[k - 1]) /\ log[k][2] = LastPointerBefore(k)
              /\ IsRead(log[k], "ptr") => (k > 1 /\ log[k - 1] = Seek(log[k][3]))
        /\ (pc = "done" /\ ValidArchive(arch) /\ arch.E = 2 /\ arch.N = 5 /\ arch.zeroAt = 5) =>
              /\ Seeks = <<Seek(PageOff(arch, 0)), Seek(PageOff(arch, 1)), Seek(PageOff(arch, 2))>>
              /\ Cardinality({Seeks[k][2] : k \in 1..Len(Seeks)}) = 3
              /\ HopsAfter = {1, 3}

\* five entries in tables of two have been listed
C2_FiveEntriesInTablesOfTwo ==
    /\ InFromStream /\ pc = "done" /\ res = "Ok" /\ ValidArchive(arch)
    /\ arch.E = 2 /\ arch.N = 5 /\ arch.zeroAt = 5 /\ arch.order = "rev"
    /\ Len(Seeks) = 3 /\ Len(out.files) = 5

\* C3: read_rgba_bytes turns every RGB565 pixel p into
\* [((p >> 11) & 31) << 3, ((p >> 5) & 63) << 2, (p & 31) << 3, 255];
\* 0b11111_000000_00000 gives [248, 0, 0, 255].
C3_Rgb565Conversion ==
    (prog = "pixel" /\ pc = "done" /\ img.fmt = "RGB565") =>
        out = << ((img.px \div 2048) % 32) * 8, ((img.px \div 32) % 64) * 4,
                 (img.px % 32) * 8, 255 >>

\* C4: read_rgba_bytes turns every RGB555 pixel p (top bit ignored) into
\* [((p >> 10) & 31) << 3, ((p >> 5) & 31) << 3, (p & 31) << 3, 255]: the low
\* three bits of each colour byte are zero and alpha is 255;
\* 0b0_11111_00000_00000 gives [248, 0, 0, 255].
C4_Rgb555Conversion ==
    (prog = "pixel" /\ pc = "done" /\ img.fmt = "RGB555") =>
        /\ out = << ((img.px \div 1024) % 32) * 8, ((img.px \div 32) % 32) * 8,
                    (img.px % 32) * 8, 255 >>
        /\ out = PixelToRgba("RGB555", img.px % 32768)
        /\ \A k \in 1..3 : out[k] % 8 = 0
        /\ out[4] = 255
        /\ img.px = 31744 => out = <<248, 0, 0, 255>>

\* the pixel 0b1_11111_00000_00000, top bit set, has been converted to pure red
C4_RedWithTopBitConverted ==
    /\ prog = "pixel" /\ pc = "done" /\ img.fmt = "RGB555"
    /\ img.px = 32768 + 31744
    /\ out = <<248, 0, 0, 255>>

\* the RGBA bytes of the stored pixels, four per pixel
StoredRgba(m) ==
    [k \in 1..(4 * m.width * m.height) |->
        PixelToRgba(RimFormatOf(m.fmt),
                    PixelAt(m, ((k - 1) \div 4) \div m.width, ((k - 1) \div 4) % m.width))
            [((k - 1) % 4) + 1]]

\* the image is well formed and all its rows are in the stream (the padding of
\* the last row may be missing: it is only seeked over)
WholeImage(m) == m.sigOK /\ m.fmt \in {0, 1} /\ m.pad >= 0 /\ m.cut \in {"none", "lastpad"}

\* C5: for every image with pitch >= width*2, read_contiguous returns exactly the
\* width*height pixels in row-major order and read_rgba_bytes exactly
\* width*height*4 bytes, built from the first width*2 bytes of each row only;
\* the padding after each row is skipped.
C5_PaddingSkipped ==
    (InRim /\ pc = "done" /\ WholeImage(img)) =>
        /\ res = "Ok"
        /\ out = IF IsRgba THEN StoredRgba(img) ELSE StoredPixels(img)

\* Apart from the overflow of self.width * self.height in a build with overflow
\* checks, the rows are read as C5 says.
PaddingSkippedWithoutOverflow ==
    (InRim /\ pc = "done" /\ WholeImage(img)
           /\ (img.width * img.height <= 65535 \/ ~overflow_checks)) =>
        /\ res = "Ok"
        /\ out = IF IsRgba THEN StoredRgba(img) ELSE StoredPixels(img)

\* C6: when the first four bytes are not the magic, ZfsHeaders::from_stream fails
\* with the invalid-signature error, reads no header field, seeks to no table and
\* returns no entries; RimHeader::from_stream fails with the invalid-signature
\* error and yields no header and no pixels.
C6_BadSignatureRejected ==
    /\ (InFromStream /\ ~arch.sigOK) =>
          /\ pc \in {"start", "done"}
          /\ pc = "done" =>
                /\ res = "Err" /\ why = "Invalid ZFS signature"
                /\ log = <<Read("sig", 0, 4)>>
                /\ out = None /\ files = <<>>
    /\ (InRim /\ ~img.sigOK) =>
          /\ pc \in {"start", "rim_sig", "done"}
          /\ pc = "done" =>
                /\ res = "Err" /\ why = "Invalid RIM signature"
                /\ log = <<Seek(img.off), Read("sig", img.off, 4)>>
                /\ rim_image = None /\ out = None /\ data = <<>>

\* from_stream has rejected an archive that does not start with the magic
C6_ZfsSignatureRejected ==
    /\ InFromStream /\ ~arch.sigOK /\ pc = "done"
    /\ res = "Err" /\ why = "Invalid ZFS signature"

\* C7: a well-formed image header whose format code is neither 0 nor 1 makes the
\* RIM decoder fail with the unknown-format error before any pixel is read; no
\* header and no pixel output is produced.
C7_UnknownFormatRejected ==
    (InRim /\ img.sigOK /\ img.cut \notin {"sig", "hdr"} /\ img.fmt \notin {0, 1}) =>
        /\ pc \in {"start", "rim_sig", "rim_header", "done"}
        /\ \A k \in 1..Len(log) : ~IsRead(log[k], "row")
        /\ rim_image = None /\ data = <<>> /\ out = None
        /\ pc = "done" =>
              /\ res = "Err" /\ why = "Unknown RIM format"
              /\ pos = img.off + RimHeaderLen

\* an image of format code 2 with pixel rows behind its header has been rejected
C7_FormatTwoRejected ==
    /\ InRim /\ img.sigOK /\ img.cut = "none" /\ img.fmt = 2
    /\ img.width = 2 /\ img.height = 2
    /\ pc = "done" /\ res = "Err" /\ why = "Unknown RIM format"

\* C8: with entries-per-table = 0, from_stream reports a fatal error before the
\* entry loop, whatever total-entry-count and the tables hold: it reads no entry,
\* does not evaluate the modulo by zero and returns no listing.
C8_ZeroPerTableIsFatal ==
    (InFromStream /\ pc = "done" /\ arch.sigOK /\ arch.cut = "none" /\ arch.L >= 1 /\ arch.E = 0) =>
        /\ res = "Err"
        /\ \A k \in 1..Len(log) : ~IsRead(log[k], "name") /\ ~IsPush(log[k])
        /\ out = None

\* a read of the decoder met the end of the stream
ShortRead ==
    \E k \in 1..Len(log) : log[k][1] = "read" /\ log[k][3] + log[k][4] > StreamLen

\* C9: when the stream ends before a read of a decoder completes (ZFS header,
\* table pointer, entry record, RIM header or RIM pixel rows) the decoder returns
\* the short-read error as an error value, does not terminate abnormally and
\* returns no partial listing or pixel buffer.
C9_ShortReadIsAnError ==
    ((InFromStream \/ InRim) /\ pc = "done" /\ ShortRead) =>
        /\ res = "Err" /\ why = "UnexpectedEof"
        /\ out = None

\* C10: get_data returns, and extract_file writes, exactly the archive bytes
\* [offset, offset+size), also when a read call delivers fewer bytes than asked
\* for; when the range is not all in the stream the operation fails.
C10_ExactByteRange ==
    (prog = "ZfsEntry::extract_file" /\ pc = "done") =>
        IF entry.offset + entry.size <= StreamLen
        THEN /\ res = "Ok"
             /\ out = [k \in 1..entry.size |-> ByteAt(entry.offset + k - 1)]
             /\ out_file = out
        ELSE res # "Ok"

\* the pixel-row reads that found their width*2 bytes in the stream
RowsDecoded ==
    {k \in 1..Len(log) : IsRead(log[k], "row") /\ log[k][3] + log[k][4] <= StreamLen}

\* the cursor after the row of read k and its skip: where the next row is read,
\* or where the decoder stands
CursorAfterRow(k) == IF k < Len(log) THEN log[k + 1][3] ELSE pos

\* C11: every header whose pixel rows the RIM decoder reads has pitch >= width*2,
\* and after each row the cursor has advanced by the true padding
\* pitch - width*2 >= 0 past the row's width*2 pixel bytes, that is by pitch from
\* the start of the row: no wrapped or negative skip, for any header, also one
\* with pitch < width*2.
C11_SkipIsTruePadding ==
    InRim =>
        \A k \in RowsDecoded :
            /\ rim_image.pitch >= rim_image.width * 2
            /\ CursorAfterRow(k) = log[k][3] + rim_image.pitch

\* For headers with pitch >= width*2 the skip after each row is the padding.
SkipIsPaddingWhenPitchCoversRow ==
    (InRim /\ img.pad >= 0) =>
        \A k \in RowsDecoded : CursorAfterRow(k) = log[k][3] + rim_image.pitch

(***************************************************************************)
(* ZfsHeaders::from_stream alone, run to completion: the function is       *)
(* sequential code, so a step that can be taken is taken.                  *)
(***************************************************************************)
NextZfs ==
    \/ ZfsReadSig
    \/ ZfsReadFields
    \/ ZfsSeekTable
    \/ ZfsReadName
    \/ ZfsReadRecord
    \/ ZfsReturn

SpecZfs == InitZfs /\ [][NextZfs]_vars /\ WF_vars(NextZfs)

\* the turns of the entry loop that got past `for i in 0..num_files`
LoopTurns == Len(SelectSeq(log, LAMBDA e : IsRead(e, "name")))

\* the header has been read: num_files is total-entry-count
HeaderRead == pc \in {"table", "loop", "record", "return"} \/ (pc = "done" /\ Len(log) > 7)

\* C12: from_stream always terminates, after at most total-entry-count turns of
\* its entry loop, and returns at most total-entry-count entries, whatever the
\* next-table pointers hold (pointers backwards, a cycle of table pages): the
\* loop is bounded by the declared count, not by the end of the chain.
C12_LoopBoundedByCount ==
    /\ [](/\ LoopTurns <= arch.N
          /\ Len(files) <= arch.N
          /\ HeaderRead => (num_files = arch.N /\ i <= num_files)
          /\ res = "Ok" => Len(out.files) <= arch.N)
    /\ <>(pc = "done")

\* five entries have been listed from a single table of two whose next-table
\* pointer is its own offset
C12_CycleListedFiveEntries ==
    /\ pc = "done" /\ res = "Ok"
    /\ arch.cycle = 1 /\ arch.E = 2 /\ arch.N = 5
    /\ Seeks = <<Seek(PageOff(arch, 0)), Seek(PageOff(arch, 0)), Seek(PageOff(arch, 0))>>
    /\ LoopTurns = 5 /\ Len(out.files) = 5

(***************************************************************************)
(* Several per-entry calls on one stream, as ZfsHeaders::extract_all makes *)
(* them: each call starts with the cursor where the call before left it.   *)
(* The first call is remembered; the second is of the same or of another   *)
(* entry, the later ones are of the first entry again.  After an Err the   *)
(* caller may go on with the stream, after a panic nothing runs.           *)
(***************************************************************************)
Entries ==
    IF InRim
    THEN {[name |-> <<97, 46, 114, 105, 109>>, offset |-> o, size |-> 0] : o \in {img.off, img.off + 1}}
    ELSE [name : {<<97>>}, offset : 0..(MaxData + 1), size : 0..(MaxData + 1)]

DecodeAgain ==
    /\ InRim \/ prog = "ZfsEntry::extract_file"
    /\ pc = "done" /\ res \in {"Ok", "Err"}
    /\ calls < MaxCalls
    /\ calls' = calls + 1
    /\ IF calls = 1
       THEN /\ prev' = [entry |-> entry, res |-> res, why |-> why, out |-> out,
                        out_file |-> out_file, log |-> log]
            /\ entry' \in Entries
       ELSE /\ prev' = prev
            /\ entry' = prev.entry
    /\ pc' = "start" /\ res' = "none" /\ why' = "" /\ log' = <<>>
    /\ rim_image' = None /\ data' = <<>> /\ line_num' = 0 /\ out_file' = None /\ out' = None
    /\ UNCHANGED <<arch, img, prog, overflow_checks, pos, zfsVars>>

InitDecodes ==
    \/ InitRim /\ img \in SmallImages
    \/ InitData

NextDecodes ==
    \/ RimSeek
    \/ RimReadSig
    \/ RimReadHeader
    \/ RimAllocate
    \/ RimReadRow
    \/ RimReturn
    \/ GetData
    \/ ExtractFileWrite
    \/ DecodeAgain

SpecDecodes == InitDecodes /\ [][NextDecodes]_vars

\* a later call of the entry of the first call has ended
DecodedAgain == calls > 1 /\ pc = "done" /\ entry = prev.entry

\* C13: a per-entry decode gives the same result whatever the cursor was before
\* the call and whatever calls ran before it on the stream: a later
\* extract_rim_image or read_contiguous of the same entry performs the same
\* reader operations and ends with the same Ok/Err/panic and the same pixels as
\* the first one, and a later get_data / extract_file to which the reader
\* delivers the same number of bytes returns and writes the same bytes.
C13_SameResultFromAnyCursor ==
    /\ (DecodedAgain /\ InRim) =>
          /\ log = prev.log
          /\ res = prev.res /\ why = prev.why
          /\ IF res = "Ok" THEN out = prev.out ELSE out = None
    /\ (DecodedAgain /\ prog = "ZfsEntry::extract_file" /\ log[2][4] = prev.log[2][4]) =>
          /\ log = prev.log
          /\ res = prev.res /\ out = prev.out /\ out_file = prev.out_file

\* the third call on a stream, of the image decoded by the first one, after a
\* call that left the cursor elsewhere, has returned its four pixels again
C13_ImageDecodedThreeTimes ==
    /\ prog = "ZfsEntry::extract_rim_image" /\ DecodedAgain /\ calls = 3
    /\ img.off = 5 /\ img.width = 2 /\ img.height = 2 /\ img.pad = 2 /\ img.cut = "none"
    /\ pos # 3 /\ entry.offset = img.off
    /\ res = "Ok" /\ Len(out) = 16 /\ out = prev.out

====
